---- MODULE Spec2Model ----
(***************************************************************************)
(* Passive-tree ETL (scripts/tree_etl.py, scripts/tree_loader.py,          *)
(* scripts/load_tree401.py, scripts/register_tree_version.py) over the     *)
(* SQLite schema of scripts/setup_db.py, and the greedy path optimizer of  *)
(* src/api/optimizer.py.                                                   *)
(*                                                                         *)
(* A table with a primary key is a function from key to the remaining      *)
(* columns: INSERT OR REPLACE overrides the row of an existing key, INSERT *)
(* OR IGNORE keeps it.  A table whose columns are all key columns is a set *)
(* of tuples.  A script run is one action: the statements run inside one   *)
(* SQLite transaction, which is committed at the end or rolled back when a *)
(* statement raises, so no other connection sees an intermediate state.    *)
(***************************************************************************)
EXTENDS Integers, Sequences, FiniteSets, TLC

\* ---------------------------------------------------------------- bounds
MaxNode == 2
MaxConns == 1
MaxVersion == 2
MaxAscVersion == 2
MaxOptNode == 3
MaxPoints == 3

\* ------------------------------------------------------ program constants
SENTINEL_RADIUS == 2147483647

\* Value of a connection record that carries no usable "id" (c.get("id") is
\* None, or the record itself is returned by c.get("id", c)).
NoId == 0 - 1

\* -------------------------------------------------------- raw documents
NodeIds == 1..MaxNode
\* MaxNode + 1 is an id no document defines: a connection to it is orphaned.
TargetIds == 1..(MaxNode + 1)
GroupId == 1
GroupCenter == [x |-> 7, y |-> 8]

PlainRadius == 5
Conns ==
  [id : TargetIds, radius : {PlainRadius, SENTINEL_RADIUS}]
    \cup {[id |-> NoId, radius |-> PlainRadius]}

RECURSIVE SeqsUpTo(_, _)
SeqsUpTo(S, n) ==
  IF n = 0 THEN {<<>>}
  ELSE LET shorter == SeqsUpTo(S, n - 1)
       IN shorter \cup {Append(s, e) : s \in {t \in shorter : Len(t) = n - 1}, e \in S}

Range(s) == {s[i] : i \in DOMAIN s}

\* The skill catalog (passive_skills section).  A stat entry is a bare string
\* key (form "str") or a {key, value} record (form "dict").
StatStr(k) == [form |-> "str", key |-> k, value |-> 0]
StatDict(k, v) == [form |-> "dict", key |-> k, value |-> v]

SmallLife == "SmallLife"
NotableArmour == "NotableArmour"
UnknownSkill == "UnknownSkill"
\* a reference that is not in the catalog and carries the "Small" marker
SmallUnlisted == "SmallUnlisted"
\* a catalog entry whose stats list names one key twice
TwiceLife == "TwiceLife"
\* a catalog entry of the Warrior ascendancy
AscendancyWarrior == "AscendancyWarrior1"

PassiveSkills ==
  (SmallLife :>
     [name |-> "Life", is_keystone |-> FALSE, is_notable |-> FALSE,
      is_just_icon |-> FALSE, is_multiple_choice |-> FALSE,
      ascendancy |-> "", stats |-> <<StatStr("Life")>>])
  @@
  (NotableArmour :>
     [name |-> "Armour", is_keystone |-> FALSE, is_notable |-> TRUE,
      is_just_icon |-> FALSE, is_multiple_choice |-> FALSE,
      ascendancy |-> "", stats |-> <<StatDict("Armour", 20), StatStr("Life")>>])
  @@
  (TwiceLife :>
     [name |-> "Twice", is_keystone |-> FALSE, is_notable |-> FALSE,
      is_just_icon |-> FALSE, is_multiple_choice |-> FALSE,
      ascendancy |-> "", stats |-> <<StatDict("Life", 10), StatDict("Life", 5)>>])
  @@
  (AscendancyWarrior :>
     [name |-> "Warcry", is_keystone |-> FALSE, is_notable |-> FALSE,
      is_just_icon |-> FALSE, is_multiple_choice |-> FALSE,
      ascendancy |-> "Warrior", stats |-> <<StatDict("Life", 10)>>])

SkillIds == {SmallLife, NotableArmour, UnknownSkill, SmallUnlisted, TwiceLife}

\* A node of the nodes section.  position is a nested {x, y} record
\* (form "dict", coordinates px, py), an orbit index that is resolved through
\* the parent group (form "int"), or absent (form "none").  A field that a
\* node record does not have reads as absent (n.get(...) is None).
PositionForms == {"dict", "int", "none"}

NodeShape(skills, forms, conns) ==
  [skill_id : skills, position : forms, px : {3}, py : {4},
   parent : {GroupId}, connections : conns]

\* Only node 1 varies in position form and may name an uncatalogued skill;
\* the other nodes have a resolvable position and a catalogued skill.
NodeRecsOf(nid) ==
  IF nid = 1
  THEN NodeShape(SkillIds, PositionForms, SeqsUpTo(Conns, MaxConns))
  ELSE NodeShape({SmallLife, NotableArmour}, {"dict"}, SeqsUpTo(Conns, MaxConns))

\* the choice for a node id that the document does not define
Absent == [absent |-> TRUE]

RECURSIVE NodeLists(_)
\* a choice for each of the node ids 1..n
NodeLists(n) ==
  IF n = 0 THEN {<<>>}
  ELSE {Append(s, r) : s \in NodeLists(n - 1), r \in NodeRecsOf(n) \cup {Absent}}

\* the nodes sections: node id -> node record, over any subset of NodeIds
NodeMaps ==
  {[nid \in {i \in DOMAIN s : s[i] # Absent} |-> s[nid]] : s \in NodeLists(MaxNode)}

\* Sections of the passive_tree part that a document has.
SectionSets ==
  {{"nodes", "groups"}, {"nodes"}, {"nodes", "groups", "root_passives"}}
NodelessSectionSets ==
  {{"groups"}, {"groups", "root_passives"}}

Docs ==
  {[sections |-> ss, nodes |-> nm] : ss \in SectionSets, nm \in NodeMaps}
    \cup {[sections |-> ss, nodes |-> [k \in {} |-> 0]] : ss \in NodelessSectionSets}

\* The documents of the multi-version specification: a complete node set or
\* node 1 alone, connections only on node 1.
StoreDocs ==
  {d \in Docs :
     /\ d.sections = {"nodes", "groups", "root_passives"}
     /\ DOMAIN d.nodes \in {NodeIds, {1}}
     /\ \A n \in DOMAIN d.nodes :
          /\ d.nodes[n].skill_id = SmallLife
          /\ d.nodes[n].position = "dict"
          /\ (n # 1 => d.nodes[n].connections = <<>>)
          /\ \A c \in Range(d.nodes[n].connections) :
               c.radius = PlainRadius /\ c.id \in {2, NoId}}

\* raw.get("passive_tree", {}).get(...) with the defaults of the callers
DocNodes(doc) == doc.nodes
DocGroups(doc) == IF "groups" \in doc.sections THEN {GroupId} ELSE {}
DocRoots(doc) == IF "root_passives" \in doc.sections THEN <<1>> ELSE <<>>
DocSkills(doc) == PassiveSkills

\* n.get(field) with a default for an absent field
Get(n, field, default) == IF field \in DOMAIN n THEN n[field] ELSE default

\* --------------------------------------------------------------- tables
EmptyTable == [k \in {} |-> 0]

\* INSERT OR REPLACE of one row / of the rows of g, keyed by primary key
Replace(table, key, row) ==
  [k \in DOMAIN table \cup {key} |-> IF k = key THEN row ELSE table[k]]
ReplaceAll(table, g) ==
  [k \in DOMAIN table \cup DOMAIN g |-> IF k \in DOMAIN g THEN g[k] ELSE table[k]]
\* INSERT OR IGNORE
IgnoreAll(table, g) ==
  [k \in DOMAIN table \cup DOMAIN g |-> IF k \in DOMAIN table THEN table[k] ELSE g[k]]

SetMax(S) == CHOOSE m \in S : \A e \in S : e <= m
\* rowid of an INSERT into an AUTOINCREMENT table whose rows are never deleted
NextRowId(ids) == IF ids = {} THEN 1 ELSE SetMax(ids) + 1

\* The result of a statement sequence: the connection's uncommitted view and
\* whether an exception is propagating.
Ok(db) == [ok |-> TRUE, db |-> db]
Raised(db) == [ok |-> FALSE, db |-> db]
Then(r, F(_)) == IF r.ok THEN F(r.db) ELSE r

\* ------------------------------------------------ scripts/load_tree401.py
Position(ok, px, py) == [ok |-> ok, x |-> px, y |-> py]

extract_position(n, groups) ==
  LET pos == Get(n, "position", "none")
  IN CASE pos = "dict" -> Position(TRUE, n.px, n.py)
       [] pos = "int" ->
            IF Get(n, "parent", 0) \in groups
            THEN Position(TRUE, GroupCenter.x, GroupCenter.y)
            ELSE Position(FALSE, 0, 0)
       [] OTHER ->
            IF "x" \in DOMAIN n /\ "y" \in DOMAIN n
            THEN Position(TRUE, n.x, n.y)
            ELSE Position(FALSE, 0, 0)

\* Substring tests on skill references, by the references that carry the
\* marker: skill_id.startswith("Ascendancy"), "socket" in skill_id.lower(),
\* "Start" in skill_id, "Small" in skill_id.
AscendancyPrefixed ==
  {"AscendancyWarrior1", "AscendancySmall", "AscendancyStart", "AscendancySocket",
   "AscendancySmallStart", "AscendancySmallSocket", "AscendancySocketStart",
   "AscendancySmallSocketStart"}
SocketMarked ==
  {"JewelSocket", "JEWELSOCKET", "SmallSocket", "SocketStart", "SmallSocketStart",
   "AscendancySocket", "AscendancySmallSocket", "AscendancySocketStart",
   "AscendancySmallSocketStart"}
StartMarked ==
  {"WarriorStart", "SmallStart", "SocketStart", "SmallSocketStart",
   "AscendancyStart", "AscendancySmallStart", "AscendancySocketStart",
   "AscendancySmallSocketStart"}
SmallMarked ==
  {SmallLife, SmallUnlisted, "SmallStart", "SmallSocket", "SmallSocketStart",
   "AscendancySmall", "AscendancySmallStart", "AscendancySmallSocket",
   "AscendancySmallSocketStart"}
\* references without any marker: the tests for the prefix, "Start" and
\* "Small" are case-sensitive, and "Ascendancy" counts only as a prefix
Unmarked ==
  {"", "Plain", "smallstart", "ascendancy_small", "MyAscendancy",
   NotableArmour, UnknownSkill, TwiceLife}

EmptyDetails ==
  [name |-> "", is_keystone |-> FALSE, is_notable |-> FALSE,
   is_just_icon |-> FALSE, is_multiple_choice |-> FALSE,
   ascendancy |-> "", stats |-> <<>>]

\* skills.get(sid) or {}
Details(skills, sid) == IF sid \in DOMAIN skills THEN skills[sid] ELSE EmptyDetails

\* a Keystone that is classified after a Notable
compute_node_type_notable_first(skill_id, details) ==
  IF skill_id \in AscendancyPrefixed THEN "Ascendancy"
  ELSE IF details.is_notable THEN "Notable"
  ELSE IF details.is_keystone THEN "Keystone"
  ELSE IF details.is_just_icon THEN "Mastery"
  ELSE IF details.is_multiple_choice THEN "Choice"
  ELSE IF skill_id \in SocketMarked THEN "Jewel Socket"
  ELSE IF skill_id \in StartMarked THEN "Start"
  ELSE IF skill_id \in SmallMarked THEN "Small"
  ELSE "Regular"

compute_node_type(skill_id, details) ==
  IF skill_id \in AscendancyPrefixed THEN "Ascendancy"
  ELSE IF details.is_keystone THEN "Keystone"
  ELSE IF details.is_notable THEN "Notable"
  ELSE IF details.is_just_icon THEN "Mastery"
  ELSE IF details.is_multiple_choice THEN "Choice"
  ELSE IF skill_id \in SocketMarked THEN "Jewel Socket"
  ELSE IF skill_id \in StartMarked THEN "Start"
  ELSE IF skill_id \in SmallMarked THEN "Small"
  ELSE "Regular"

\* scripts/analyze_tree401.py: the tagging step, with its own order of tests
analyze_tree401_node_type(skill_id, details) ==
  IF skill_id \in AscendancyPrefixed THEN "Ascendancy"
  ELSE IF details.is_notable THEN "Notable"
  ELSE IF details.is_keystone THEN "Keystone"
  ELSE IF details.is_just_icon THEN "Mastery"
  ELSE IF details.is_multiple_choice THEN "Choice"
  ELSE IF skill_id \in SocketMarked THEN "Jewel Socket"
  ELSE IF skill_id \in StartMarked THEN "Start"
  ELSE IF skill_id \in SmallMarked THEN "Small"
  ELSE "Regular"

\* scripts/parse_poe2_tree.py: the enrichment step, which never reads
\* is_multiple_choice when it chooses the type
parse_poe2_tree_node_type(skill_id, details) ==
  IF skill_id \in AscendancyPrefixed THEN "Ascendancy"
  ELSE IF details.is_keystone THEN "Keystone"
  ELSE IF details.is_notable THEN "Notable"
  ELSE IF details.is_just_icon THEN "Mastery"
  ELSE IF skill_id \in SocketMarked THEN "Jewel Socket"
  ELSE IF skill_id \in StartMarked THEN "Start"
  ELSE IF skill_id \in SmallMarked THEN "Small"
  ELSE "Regular"

load_raw(db, vid, raw) ==
  Ok([db EXCEPT !.raw_trees = Replace(@, vid, raw)])

NodeRow(vid, pos, ntype, name, playable) ==
  [version_id |-> vid, x |-> pos.x, y |-> pos.y, node_type |-> ntype,
   name |-> name, is_playable |-> playable]

DntUnused == {"[DNT-UNUSED]"}

\* a load_nodes that does not log the lookup miss
load_nodes_unlogged(db, vid, nodes, groups, skills) ==
  LET ids == DOMAIN nodes
      sid(nid) == Get(nodes[nid], "skill_id", "")
      unplaced == {nid \in ids : ~extract_position(nodes[nid], groups).ok}
      position_errors ==
        [k \in {<<vid, nid, "missing_position">> : nid \in unplaced} |->
           Get(nodes[k[2]], "position", "none")]
      row(nid) ==
        LET det == Details(skills, sid(nid))
        IN NodeRow(vid, extract_position(nodes[nid], groups),
                   compute_node_type(sid(nid), det), det.name,
                   det.name # "" /\ det.name \notin DntUnused)
  IN IF unplaced # {}
     THEN Raised([db EXCEPT !.node_errors = IgnoreAll(@, position_errors)])
     ELSE Ok([db EXCEPT
                !.passive_nodes = ReplaceAll(@, [nid \in ids |-> row(nid)])])

load_nodes(db, vid, nodes, groups, skills) ==
  LET ids == DOMAIN nodes
      sid(nid) == Get(nodes[nid], "skill_id", "")
      missing_skill == {nid \in ids : sid(nid) # "" /\ sid(nid) \notin DOMAIN skills}
      unplaced == {nid \in ids : ~extract_position(nodes[nid], groups).ok}
      skill_errors ==
        [k \in {<<vid, nid, "missing_skill">> : nid \in missing_skill} |-> sid(k[2])]
      position_errors ==
        [k \in {<<vid, nid, "missing_position">> : nid \in unplaced} |->
           Get(nodes[k[2]], "position", "none")]
      row(nid) ==
        LET det == Details(skills, sid(nid))
        IN NodeRow(vid, extract_position(nodes[nid], groups),
                   compute_node_type(sid(nid), det), det.name,
                   det.name # "" /\ det.name \notin DntUnused)
      logged == [db EXCEPT !.node_errors = IgnoreAll(@, skill_errors)]
  IN IF unplaced # {}
     THEN \* the ledger row is written, then the exception is re-raised
          Raised([logged EXCEPT !.node_errors = IgnoreAll(@, position_errors)])
     ELSE Ok([logged EXCEPT
                !.passive_nodes = ReplaceAll(@, [nid \in ids |-> row(nid)])])

\* int(c.get("id", c)) if isinstance(c, dict) else int(c)
ConnId(c) == c.id

Connections(n) == Range(Get(n, "connections", <<>>))

RawEdges(vid, nodes) ==
  UNION {{<<nid, ConnId(c), vid>> : c \in Connections(nodes[nid])} : nid \in DOMAIN nodes}

BadConnection(nodes) ==
  \E nid \in DOMAIN nodes : \E c \in Connections(nodes[nid]) : ConnId(c) = NoId

\* a load_edges that leaves out the connections of a node to itself
load_edges_without_self_loops(db, vid, nodes) ==
  IF BadConnection(nodes)
  THEN Raised(db)
  ELSE Ok([db EXCEPT !.node_edges =
             @ \cup {e \in RawEdges(vid, nodes) : e[1] # e[2]}])

load_edges(db, vid, nodes) ==
  IF BadConnection(nodes)
  THEN Raised(db)   \* int() of a non-number is a TypeError
  ELSE Ok([db EXCEPT !.node_edges = @ \cup RawEdges(vid, nodes)])

\* a mirroring pass that inserts nothing
mirror_edges_skipped(db, vid) == Ok(db)

\* INSERT OR IGNORE ... SELECT to, from, version FROM node_edges WHERE
\* version_id = vid AND (to, from, version) NOT IN (edges of vid)
mirror_edges(db, vid) ==
  LET of_vid == {e \in db.node_edges : e[3] = vid}
  IN Ok([db EXCEPT !.node_edges =
           @ \cup {<<e[2], e[1], e[3]>> : e \in {f \in of_vid : <<f[2], f[1], f[3]>> \notin of_vid}}])

\* key and value of one stat entry of the catalog, as load_effects reads it
StatValue(stat) ==
  IF stat.form = "dict"
  THEN LET values == Get(stat, "values", <<>>)
       IN IF stat.value # 0 THEN stat.value
          ELSE IF values # <<>> THEN values[1] ELSE 0
  ELSE 0

RECURSIVE EffectRows(_, _, _, _)
\* the rows stats[i..] of node nid leave, the later entry of a key winning
EffectRows(nid, vid, stats, i) ==
  IF i > Len(stats) THEN EmptyTable
  ELSE ReplaceAll(<<nid, stats[i].key, vid>> :> StatValue(stats[i]),
                  EffectRows(nid, vid, stats, i + 1))

RECURSIVE TableUnion(_, _)
\* the rows of the tables F[s], s in S, whose keys are disjoint
TableUnion(F, S) ==
  IF S = {} THEN EmptyTable
  ELSE LET s == CHOOSE e \in S : TRUE
       IN ReplaceAll(F[s], TableUnion(F, S \ {s}))

\* an effect upsert that adds the new value to the stored one
load_effects_accumulating(db, vid, nodes, skills) ==
  LET rows == TableUnion([nid \in DOMAIN nodes |->
                 EffectRows(nid, vid,
                            Details(skills, Get(nodes[nid], "skill_id", "")).stats, 1)],
                         DOMAIN nodes)
  IN Ok([db EXCEPT !.node_effects =
           [k \in DOMAIN @ \cup DOMAIN rows |->
              IF k \notin DOMAIN rows THEN @[k]
              ELSE IF k \in DOMAIN @ THEN @[k] + rows[k] ELSE rows[k]]])

load_effects(db, vid, nodes, skills) ==
  LET rows == [nid \in DOMAIN nodes |->
                 EffectRows(nid, vid,
                            Details(skills, Get(nodes[nid], "skill_id", "")).stats, 1)]
  IN Ok([db EXCEPT !.node_effects = ReplaceAll(@, TableUnion(rows, DOMAIN nodes))])

NoNode == [k \in {} |-> 0]
\* no --json-file argument
NoDoc == [sections |-> {}, nodes |-> NoNode]

load_starting_nodes(db, vid, raw, groups, skills) ==
  LET roots == Range(DocRoots(raw))
      node(nid) == IF nid \in DOMAIN raw.nodes THEN raw.nodes[nid] ELSE NoNode
      placed == {nid \in roots : extract_position(node(nid), groups).ok}
      cls(nid) ==
        LET asc == Details(skills, Get(node(nid), "skill_id", "")).ascendancy
        IN IF asc # "" THEN asc ELSE "Passive"
      rows == [k \in {<<vid, nid, cls(nid)>> : nid \in placed} |->
                 LET pos == extract_position(node(k[2]), groups)
                 IN <<pos.x, pos.y>>]
  IN IF roots # {} /\ "nodes" \notin raw.sections
     THEN Raised(db)   \* raw["passive_tree"]["nodes"] is a KeyError
     ELSE Ok([db EXCEPT !.starting_nodes = ReplaceAll(@, rows)])

AscRow(pos, ntype, name) == [x |-> pos.x, y |-> pos.y, node_type |-> ntype, name |-> name]

load_ascendancy_nodes(db, asc_vid, nodes, groups, skills) ==
  LET sid(nid) == Get(nodes[nid], "skill_id", "")
      ids == {nid \in DOMAIN nodes :
                sid(nid) \in AscendancyPrefixed /\ extract_position(nodes[nid], groups).ok}
      key(nid) == <<Details(skills, sid(nid)).ascendancy, nid, asc_vid>>
      rows == [k \in {key(nid) : nid \in ids} |->
                 LET det == Details(skills, sid(k[2]))
                 IN AscRow(extract_position(nodes[k[2]], groups),
                           compute_node_type(sid(k[2]), det), det.name)]
  IN Ok([db EXCEPT !.ascendancy_nodes = ReplaceAll(@, rows)])

\* INSERT INTO ascendancy_versions DEFAULT VALUES; INSERT INTO
\* raw_ascendancy_snapshots(version_id, raw_json)
new_ascendancy_version(db, raw) ==
  LET asc_vid == NextRowId(db.ascendancy_versions)
  IN [db EXCEPT !.ascendancy_versions = @ \cup {asc_vid},
                !.raw_ascendancy_snapshots = Replace(@, asc_vid, raw)]

\* the statements of main between sqlite3.connect and conn.commit
load_tree401_main(db, raw, vid) ==
  LET nodes == DocNodes(raw)
      groups == DocGroups(raw)
      skills == DocSkills(raw)
      asc_vid == NextRowId(db.ascendancy_versions)
      r1 == load_raw(new_ascendancy_version(db, raw), vid, raw)
      r2 == Then(r1, LAMBDA d : load_nodes(d, vid, nodes, groups, skills))
      r3 == Then(r2, LAMBDA d : load_edges(d, vid, nodes))
      r4 == Then(r3, LAMBDA d : mirror_edges(d, vid))
      r5 == Then(r4, LAMBDA d : load_effects(d, vid, nodes, skills))
      r6 == Then(r5, LAMBDA d : load_starting_nodes(d, vid, raw, groups, skills))
  IN Then(r6, LAMBDA d : load_ascendancy_nodes(d, asc_vid, nodes, groups, skills))

\* ------------------------------------------------- scripts/tree_loader.py
tl_extract_position(n, groups) ==
  IF Get(n, "position", "none") = "dict" THEN Position(TRUE, n.px, n.py)
  ELSE IF "x" \in DOMAIN n /\ "y" \in DOMAIN n THEN Position(TRUE, n.x, n.y)
  ELSE IF "group" \in DOMAIN n /\ n.group \in groups
       THEN Position(TRUE, GroupCenter.x, GroupCenter.y)
  ELSE Position(TRUE, 0, 0)

tl_compute_node_type(n) ==
  IF Get(n, "ascendancyName", "") # "" THEN "Ascendancy"
  ELSE IF Get(n, "isKeystone", FALSE) THEN "Keystone"
  ELSE IF Get(n, "isNotable", FALSE) THEN "Notable"
  ELSE IF Get(n, "options", <<>>) # <<>> THEN "Choice"
  ELSE IF Get(n, "isAscendancyStart", FALSE) THEN "Start"
  ELSE "Regular"

tl_load_nodes(db, vid, nodes, groups) ==
  LET row(nid) ==
        LET name == Get(nodes[nid], "name", "")
        IN NodeRow(vid, tl_extract_position(nodes[nid], groups),
                   tl_compute_node_type(nodes[nid]), name, name # "")
  IN Ok([db EXCEPT !.passive_nodes = ReplaceAll(@, [nid \in DOMAIN nodes |-> row(nid)])])

tl_load_edges(db, vid, nodes) ==
  IF BadConnection(nodes)
  THEN Raised(db)
  ELSE Ok([db EXCEPT !.node_edges =
             @ \cup RawEdges(vid, nodes)
               \cup {<<e[2], e[1], e[3]>> : e \in RawEdges(vid, nodes)}])

tl_load_starting_nodes(db, vid, nodes, groups) ==
  LET classes(nid) == Range(Get(nodes[nid], "classesStart", <<>>))
      keys == UNION {{<<vid, nid, cls>> : cls \in classes(nid)} : nid \in DOMAIN nodes}
      rows == [k \in keys |->
                 LET pos == tl_extract_position(nodes[k[2]], groups)
                 IN <<pos.x, pos.y>>]
  IN Ok([db EXCEPT !.starting_nodes = ReplaceAll(@, rows)])

tl_load_ascendancy_nodes(db, asc_vid, nodes, groups) ==
  LET ids == {nid \in DOMAIN nodes : Get(nodes[nid], "ascendancyName", "") # ""}
      rows == [k \in {<<nodes[nid].ascendancyName, nid, asc_vid>> : nid \in ids} |->
                 AscRow(tl_extract_position(nodes[k[2]], groups), "Ascendancy",
                        Get(nodes[k[2]], "name", ""))]
  IN Ok([db EXCEPT !.ascendancy_nodes = ReplaceAll(@, rows)])

\* --------------------------------------------------- scripts/tree_etl.py
\* an insert that always writes the row of version 1
upsert_version_fixed(db) ==
  [db EXCEPT !.tree_versions = @ \cup {1}]

upsert_version(db) ==
  [db EXCEPT !.tree_versions = @ \cup {NextRowId(db.tree_versions)}]

RECURSIVE KeyRows(_, _, _, _)
\* one row (nid, stat, 0.0, vid) per entry of the stats list
KeyRows(nid, vid, stats, i) ==
  IF i > Len(stats) THEN EmptyTable
  ELSE ReplaceAll(<<nid, stats[i].key, vid>> :> 0, KeyRows(nid, vid, stats, i + 1))

pipeline_effects(db, vid, nodes, skills) ==
  LET stats(nid) == Details(skills, Get(nodes[nid], "skill_id", "")).stats
      rows == [nid \in DOMAIN nodes |-> KeyRows(nid, vid, stats(nid), 1)]
  IN IF \E nid \in DOMAIN nodes : \E st \in Range(stats(nid)) : st.form # "str"
     THEN Raised(db)   \* a dict cannot be bound as the stat_key parameter
     ELSE Ok([db EXCEPT !.node_effects = ReplaceAll(@, TableUnion(rows, DOMAIN nodes))])

load_pipeline(db, vid, data) ==
  LET nodes == DocNodes(data)
      groups == DocGroups(data)
      skills == DocSkills(data)
      asc_vid(d) == NextRowId(d.ascendancy_versions)
      r1 == load_raw(db, vid, data)
      r2 == Then(r1, LAMBDA d : tl_load_nodes(d, vid, nodes, groups))
      r3 == Then(r2, LAMBDA d : tl_load_edges(d, vid, nodes))
      r4 == Then(r3, LAMBDA d : mirror_edges(d, vid))
      r5 == Then(r4, LAMBDA d : pipeline_effects(d, vid, nodes, skills))
      r6 == Then(r5, LAMBDA d : tl_load_starting_nodes(d, vid, nodes, groups))
  IN Then(r6, LAMBDA d :
       tl_load_ascendancy_nodes(new_ascendancy_version(d, data), asc_vid(d), nodes, groups))

\* the statements of load_tree between sqlite3.connect and conn.commit
load_tree(db, data) ==
  load_pipeline(upsert_version(db), NextRowId(db.tree_versions), data)

\* ------------------------------------------- scripts/register_tree_version.py
register_tree_version_main(db, raw) ==
  LET version_id == NextRowId(db.tree_versions)
  IN IF version_id \in DOMAIN db.raw_trees
     THEN Raised(db)   \* plain INSERT into raw_trees: the primary key exists
     ELSE Ok([db EXCEPT !.tree_versions = @ \cup {version_id},
                        !.raw_trees = Replace(@, version_id, raw)])

\* ------------------------------------------------- src/api/optimizer.py
\* Scores are kept in halves, so that the average of a parsed range is an
\* integer: a weight of 1.0 is 2 halves per unit of value.
Lower(goal) ==
  CASE goal = "TANKY" -> "tanky"
    [] goal = "Bossing" -> "bossing"
    [] OTHER -> goal

\* a tanky entry that also lists the bossing pattern "Damage"
GoalPatterns_shared(goal) ==
  CASE goal = "tanky" -> {"Life", "Armour", "Energy Shield", "Resistance", "Damage"}
    [] goal = "bossing" -> {"Damage", "Crit"}
    [] goal = "speed" -> {"Movement Speed", "Attack Speed"}
    [] OTHER -> {}

GoalPatterns(goal) ==
  CASE goal = "tanky" -> {"Life", "Armour", "Energy Shield", "Resistance"}
    [] goal = "bossing" -> {"Damage", "Crit"}
    [] goal = "speed" -> {"Movement Speed", "Attack Speed"}
    [] OTHER -> {}

\* the patterns p with re.search(p, stat_key, re.IGNORECASE), per stat key
Matching(stat_key) ==
  CASE stat_key = "Maximum Life" -> {"Life"}
    [] stat_key = "Life" -> {"Life"}
    [] stat_key = "Armour" -> {"Armour"}
    [] stat_key = "Lightning Damage" -> {"Damage"}
    [] stat_key = "Armour and Energy Shield" -> {"Armour", "Energy Shield"}
    [] stat_key = "life regeneration" -> {"Life"}
    [] OTHER -> {}

\* the keys of the weights dict; every weight is 1.0
build_stat_weights(goals) ==
  UNION {GoalPatterns(Lower(goals[i])) : i \in DOMAIN goals}

RECURSIVE SumSeq(_, _, _)
SumSeq(s, F(_), i) == IF i > Len(s) THEN 0 ELSE F(s[i]) + SumSeq(s, F, i + 1)

node_score(node_id, node_effects, parsed_mods, stat_weights) ==
  LET effects == IF node_id \in DOMAIN node_effects THEN node_effects[node_id] ELSE <<>>
      mods == IF node_id \in DOMAIN parsed_mods THEN parsed_mods[node_id] ELSE <<>>
      hits(stat_key) == Cardinality(Matching(stat_key) \cap stat_weights)
      avg2(m) == IF m.mn_given /\ m.mx_given THEN m.mn + m.mx
                 ELSE IF m.mn_given THEN 2 * m.mn ELSE 0
  IN SumSeq(effects, LAMBDA e : 2 * e.value * hits(e.stat_key), 1)
       + SumSeq(mods, LAMBDA m : avg2(m) * hits(m.stat_key), 1)

\* edges.get(node, []), as the set of its entries
Neighbours(edges, node) == IF node \in DOMAIN edges THEN edges[node] ELSE {}

\* the arguments optimize_path is called with
OptNodes == 1..MaxOptNode
AscNode == MaxOptNode + 1

Effect(k, v) == [stat_key |-> k, value |-> v]
Mod(k, mn, mx) == [stat_key |-> k, mn |-> mn, mx |-> mx, mn_given |-> TRUE, mx_given |-> TRUE]

EffectCatalogs ==
  { [n \in OptNodes |-> CASE n = 1 -> <<>>
                          [] n = 2 -> <<Effect("Maximum Life", 10)>>
                          [] n = 3 -> <<Effect("Lightning Damage", 5)>>
                          [] OTHER -> <<Effect("Armour and Energy Shield", 5)>>],
    [n \in OptNodes |-> CASE n = 2 -> <<Effect("Maximum Life", 0 - 5)>>
                          [] n = 3 -> <<Effect("Armour and Energy Shield", 5)>>
                          [] OTHER -> <<Effect("Maximum Life", 10)>>] }

ModCatalogs ==
  { EmptyTable, (2 :> <<Mod("life regeneration", 1, 2)>>),
    (3 :> <<Mod("Lightning Damage", 1, 3)>>) }

GoalLists == {<<>>, <<"tanky">>, <<"Bossing", "TANKY">>, <<"dps">>}

AscendancyLists == {<<>>, <<2>>, <<AscNode>>, <<AscNode, 2>>}

\* undirected graphs over OptNodes, loops included, as adjacency
Links == {l \in SUBSET OptNodes : Cardinality(l) \in {1, 2}}
Adjacency(ls) == [n \in OptNodes |-> {m \in OptNodes : {n, m} \in ls}]

OptCalls ==
  [edges : {Adjacency(ls) : ls \in SUBSET Links},
   node_effects : EffectCatalogs, parsed_mods : ModCatalogs,
   start_node : {1}, ascendancy_nodes : AscendancyLists,
   goals : GoalLists, max_points : 0..MaxPoints]

NoCall ==
  [edges |-> EmptyTable, node_effects |-> EmptyTable, parsed_mods |-> EmptyTable,
   start_node |-> 0, ascendancy_nodes |-> <<>>, goals |-> <<>>, max_points |-> 0]

Score(call, node) ==
  node_score(node, call.node_effects, call.parsed_mods, build_stat_weights(call.goals))

\* a scan that ends with any node of positive score
BestNodes_any_positive(call, front) ==
  {n \in front : Score(call, n) > 0}

\* a scan that also accepts a best score of zero
BestNodes_nonnegative(call, front) ==
  {n \in front : Score(call, n) >= 0 /\ \A m \in front : Score(call, m) <= Score(call, n)}

\* the nodes the scan of the frontier can end with: a node of the highest
\* score, that score being positive (which of several is left to the
\* iteration order of the set)
BestNodes(call, front) ==
  {n \in front : Score(call, n) > 0 /\ \A m \in front : Score(call, m) <= Score(call, n)}

\* a frontier that keeps the node just selected
Expand_keeping_best(call, front, chosen, best_node) ==
  front \cup {nbr \in Neighbours(call.edges, best_node) : nbr \notin chosen}

\* a frontier that every node not yet selected joins
Expand_any_node(call, front, chosen, best_node) ==
  (front \ {best_node}) \cup {nbr \in DOMAIN call.edges : nbr \notin chosen}

\* frontier after best_node is selected: its neighbours not in selected join
Expand(call, front, chosen, best_node) ==
  (front \ {best_node}) \cup {nbr \in Neighbours(call.edges, best_node) : nbr \notin chosen}

\* an append that takes the last ids of the list when the budget cuts it
Appended_last(call, p) ==
  IF call.ascendancy_nodes # <<>> /\ Len(p) < call.max_points
  THEN LET room == call.max_points - Len(p)
           n == Len(call.ascendancy_nodes)
       IN SubSeq(call.ascendancy_nodes, (IF n < room THEN 1 ELSE n - room + 1), n)
  ELSE <<>>

\* an append that does not test the budget inside its loop
Appended_unbounded(call, p) ==
  IF call.ascendancy_nodes # <<>> /\ Len(p) < call.max_points
  THEN call.ascendancy_nodes
  ELSE <<>>

\* the ascendancy ids appended after the loop
Appended(call, p) ==
  IF call.ascendancy_nodes # <<>> /\ Len(p) < call.max_points
  THEN LET room == call.max_points - Len(p)
           k == IF Len(call.ascendancy_nodes) < room
                THEN Len(call.ascendancy_nodes) ELSE room
       IN SubSeq(call.ascendancy_nodes, 1, k)
  ELSE <<>>

\* ------------------------------------------------- scripts/parse_mods.py
\* A raw modifier is a sequence of characters; a {tags:...} or {variant:...}
\* marker is one element. Numbers are kept as fractions num / den.
Tag == "{tag}"
Digits == {"0", "1", "2", "3", "4", "5", "6", "7", "8", "9"}
DigitValue ==
  ("0" :> 0) @@ ("1" :> 1) @@ ("2" :> 2) @@ ("3" :> 3) @@ ("4" :> 4) @@
  ("5" :> 5) @@ ("6" :> 6) @@ ("7" :> 7) @@ ("8" :> 8) @@ ("9" :> 9)
Whitespace == {" "}
\* the hyphen and the en dash (U+2013)
EnDash == "en-dash"
RangeDashes == {"-", EnDash}

\* CLEANER.sub("", raw)
CleanerSub(raw) == SelectSeq(raw, LAMBDA c : c # Tag)

\* str.strip()
RECURSIVE Strip(_)
Strip(t) ==
  IF t = <<>> THEN t
  ELSE IF Head(t) \in Whitespace THEN Strip(Tail(t))
  ELSE IF t[Len(t)] \in Whitespace THEN Strip(SubSeq(t, 1, Len(t) - 1))
  ELSE t

\* the number of characters of S in a row in t, from position i on
RECURSIVE Run(_, _, _)
Run(t, i, S) == IF i <= Len(t) /\ t[i] \in S THEN 1 + Run(t, i + 1, S) ELSE 0

\* the ways \d+(?:\.\d+)? matches at position i: <<digits, digits of the fraction>>
Number(t, i) ==
  {<<d, 0>> : d \in 1..Run(t, i, Digits)}
    \cup UNION {{<<d, f>> : f \in 1..Run(t, i + d + 1, Digits)} :
                d \in {e \in 1..Run(t, i, Digits) : i + e <= Len(t) /\ t[i + e] = "."}}

NumberLen(n) == n[1] + (IF n[2] = 0 THEN 0 ELSE n[2] + 1)

\* the ways the optional group of the dash and max matches at position i; <<0, 0>> is the empty way
MaxGroup(t, i) ==
  {<<0, 0>>} \cup (IF i <= Len(t) /\ t[i] \in RangeDashes THEN Number(t, i + 1) ELSE {})

MaxGroupLen(n) == IF n = <<0, 0>> THEN 0 ELSE 1 + NumberLen(n)

\* every way MOD_PATTERN matches the whole of t: the lengths of the sign,
\* the blanks, the two numbers and the blanks before the key (which is the
\* rest, one character at least)
Matches(t) ==
  UNION {UNION {UNION {UNION {
    {[s |-> s, w1 |-> w1, mn |-> mn, mx |-> mx, w2 |-> w2] :
       w2 \in {w \in 0..Run(t, s + w1 + NumberLen(mn) + MaxGroupLen(mx) + 1, Whitespace) :
                 s + w1 + NumberLen(mn) + MaxGroupLen(mx) + w < Len(t)}} :
      mx \in MaxGroup(t, s + w1 + NumberLen(mn) + 1)} :
      mn \in Number(t, s + w1 + 1)} :
      w1 \in 0..Run(t, s + 1, Whitespace)} :
      s \in {0} \cup (IF t # <<>> /\ t[1] \in {"+", "-"} THEN {1} ELSE {})}

\* the order in which the regex engine tries the ways: every quantifier
\* is greedy, so the longer choice is tried first, from left to right
Choices(m) == <<m.s, m.w1, m.mn[1], m.mn[2], m.mx[1], m.mx[2], m.w2>>
TriedBefore(a, b) ==
  \E i \in DOMAIN a : a[i] > b[i] /\ \A j \in 1..(i - 1) : a[j] = b[j]

\* MOD_PATTERN.match(text): the first way that matches
FirstMatch(t) ==
  CHOOSE m \in Matches(t) :
    \A o \in Matches(t) \ {m} : TriedBefore(Choices(m), Choices(o))

RECURSIVE DigitsValue(_, _, _)
DigitsValue(t, i, n) ==
  IF n = 0 THEN 0 ELSE DigitsValue(t, i, n - 1) * 10 + DigitValue[t[i + n - 1]]
RECURSIVE Pow10(_)
Pow10(n) == IF n = 0 THEN 1 ELSE 10 * Pow10(n - 1)

\* float(group) of the number n matched at position i
Float(t, i, n) ==
  [num |-> DigitsValue(t, i, n[1]) * Pow10(n[2])
             + (IF n[2] = 0 THEN 0 ELSE DigitsValue(t, i + n[1] + 1, n[2])),
   den |-> Pow10(n[2])]
Less(a, b) == a.num * b.den < b.num * a.den
Same(a, b) == a.num * b.den = b.num * a.den
Neg(a) == [a EXCEPT !.num = 0 - @]
Null == [num |-> 0, den |-> 0]

parse_modifier(raw) ==
  LET text == Strip(CleanerSub(raw))
  IN IF Matches(text) = {}
     THEN [stat_key |-> text, min_value |-> Null, max_value |-> Null, is_range |-> FALSE]
     ELSE LET m == FirstMatch(text)
              has_max == m.mx # <<0, 0>>
              sign == IF m.s = 1 THEN text[1] ELSE "+"
              min0 == Float(text, m.s + m.w1 + 1, m.mn)
              max0 == IF has_max
                      THEN Float(text, m.s + m.w1 + NumberLen(m.mn) + 2, m.mx)
                      ELSE min0
              \* if maxv < minv: minv, maxv = maxv, minv
              min1 == IF Less(max0, min0) THEN max0 ELSE min0
              max1 == IF Less(max0, min0) THEN min0 ELSE max0
              \* if sign == "-"
              minv == IF sign = "-" THEN Neg(min1) ELSE min1
              maxv == IF sign = "-" THEN (IF has_max THEN Neg(max1) ELSE minv) ELSE max1
              key == SubSeq(text, m.s + m.w1 + NumberLen(m.mn) + MaxGroupLen(m.mx) + m.w2 + 1,
                            Len(text))
          IN [stat_key |-> Strip(key), min_value |-> minv, max_value |-> maxv,
              is_range |-> has_max /\ ~Same(minv, maxv)]

\* the raw modifiers parse_modifier is applied to
MaxRawLen == 5
RawChars == {"+", "-", EnDash, " ", ".", "1", "2", "L", Tag}
RawTexts == SeqsUpTo(RawChars, MaxRawLen)

\* ------------------------------------------------------ src/api/main.py
\* Weights are kept in tenths, so a score is ten times the score of the code.
GoalWeights(goal) ==
  CASE goal = "tanky" -> ("life" :> 6) @@ ("armor" :> 3) @@ ("eshield" :> 1)
    [] goal = "bossing" ->
         ("Lightning Damage" :> 4) @@ ("Projectile Damage" :> 3) @@ ("crit_chance" :> 3)
    [] goal = "speed" -> ("speed" :> 7) @@ ("attack_speed" :> 3)
    [] OTHER -> EmptyTable

\* the fields of BuildMetrics that hold a number (hasattr and getattr)
MetricFields == {"life", "armor", "eshield", "crit_chance", "total_points"}

\* the value score_build reads for metric_key
MetricValue(metrics, metric_key) ==
  IF metric_key \in MetricFields THEN metrics[metric_key]
  ELSE IF metric_key \in DOMAIN metrics.damage_inc THEN metrics.damage_inc[metric_key]
  ELSE 0

\* the inner loop of score_build over the keys of one weights dict
RECURSIVE WeightedSum(_, _, _)
WeightedSum(metrics, weights, keys) ==
  IF keys = {} THEN 0
  ELSE LET metric_key == CHOOSE k \in keys : TRUE
       IN MetricValue(metrics, metric_key) * weights[metric_key]
            + WeightedSum(metrics, weights, keys \ {metric_key})

\* a score_build that returns after the first goal that has criteria
RECURSIVE score_build_first_goal(_, _)
score_build_first_goal(metrics, goals) ==
  IF goals = <<>> THEN 0
  ELSE LET weights == GoalWeights(Lower(Head(goals)))
       IN IF weights = EmptyTable THEN score_build_first_goal(metrics, Tail(goals))
          ELSE WeightedSum(metrics, weights, DOMAIN weights)

\* the outer loop of score_build: a goal without criteria is skipped
RECURSIVE score_build(_, _)
score_build(metrics, goals) ==
  IF goals = <<>> THEN 0
  ELSE LET weights == GoalWeights(Lower(Head(goals)))
       IN (IF weights = EmptyTable THEN 0
           ELSE WeightedSum(metrics, weights, DOMAIN weights))
            + score_build(metrics, Tail(goals))

\* the arguments score_build is called with
MaxGoals == 2
GoalLabels == {"tanky", "Bossing", "speed", "unknown"}
DamageIncs ==
  { EmptyTable,
    ("Fire Damage" :> 0) @@ ("Cold Damage" :> 0) @@ ("Lightning Damage" :> 40)
      @@ ("Physical Damage" :> 0) @@ ("Projectile Damage" :> 60),
    ("life" :> 7) @@ ("Lightning Damage" :> 1) }
MetricsValues ==
  [life : {0, 100}, armor : {0, 50}, eshield : {25}, crit_chance : {0, 10},
   damage_inc : DamageIncs, total_points : {10}]
NoMetrics ==
  [life |-> 0, armor |-> 0, eshield |-> 0, crit_chance |-> 0,
   damage_inc |-> EmptyTable, total_points |-> 0]

\* --------------------------------------------------- src/api/metrics.py
\* Values are kept in halves, as the scores of the optimizer are.
DAMAGE_TYPES ==
  {"Fire Damage", "Cold Damage", "Lightning Damage", "Physical Damage", "Projectile Damage"}

\* the substrings s among 'Life', 'Armour', 'Energy Shield' and DAMAGE_TYPES
\* with s in stat_key, per stat key
Contained(stat_key) ==
  CASE stat_key = "Maximum Life" -> {"Life"}
    [] stat_key = "Life" -> {"Life"}
    [] stat_key = "Armour" -> {"Armour"}
    [] stat_key = "Armour and Energy Shield" -> {"Armour", "Energy Shield"}
    [] stat_key = "Lightning Damage" -> {"Lightning Damage"}
    [] stat_key = "Life gained on Fire Damage" -> {"Life", "Fire Damage"}
    [] OTHER -> {}

\* CRIT_PATTERN.search(stat_key), which ignores case
CritSearch(stat_key) ==
  stat_key \in {"Critical Strike Chance", "critical strike chance"}

ZeroMetrics ==
  [life |-> 0, armor |-> 0, eshield |-> 0, crit_chance |-> 0,
   damage_inc |-> [dt \in DAMAGE_TYPES |-> 0], total_points |-> 0]

\* a process_stat that stops at the first bucket that matches
process_stat_exclusive(acc, stat_key, value) ==
  IF "Life" \in Contained(stat_key) THEN [acc EXCEPT !.life = @ + value]
  ELSE IF "Armour" \in Contained(stat_key) THEN [acc EXCEPT !.armor = @ + value]
  ELSE IF "Energy Shield" \in Contained(stat_key) THEN [acc EXCEPT !.eshield = @ + value]
  ELSE IF CritSearch(stat_key) THEN [acc EXCEPT !.crit_chance = @ + value]
  ELSE [acc EXCEPT !.damage_inc =
          [dt \in DAMAGE_TYPES |-> IF dt \in Contained(stat_key) THEN @[dt] + value ELSE @[dt]]]

process_stat(acc, stat_key, value) ==
  [life |-> acc.life + (IF "Life" \in Contained(stat_key) THEN value ELSE 0),
   armor |-> acc.armor + (IF "Armour" \in Contained(stat_key) THEN value ELSE 0),
   eshield |-> acc.eshield + (IF "Energy Shield" \in Contained(stat_key) THEN value ELSE 0),
   crit_chance |-> acc.crit_chance + (IF CritSearch(stat_key) THEN value ELSE 0),
   damage_inc |-> [dt \in DAMAGE_TYPES |->
                     acc.damage_inc[dt] + (IF dt \in Contained(stat_key) THEN value ELSE 0)],
   total_points |-> acc.total_points]

\* twice ((mn + mx) / 2 if both are given, else (mn or 0.0))
Avg2(mod) ==
  IF mod.mn_given /\ mod.mx_given THEN mod.mn + mod.mx
  ELSE IF mod.mn_given THEN 2 * mod.mn ELSE 0

\* for stat_key, val in node_effects.get(node_id, [])
RECURSIVE ProcessEffects(_, _, _)
ProcessEffects(acc, effects, i) ==
  IF i > Len(effects) THEN acc
  ELSE ProcessEffects(process_stat(acc, effects[i].stat_key, 2 * effects[i].value),
                      effects, i + 1)

\* for stat_key, mn, mx, is_range in parsed_mods.get(node_id, [])
RECURSIVE ProcessMods(_, _, _)
ProcessMods(acc, mods, i) ==
  IF i > Len(mods) THEN acc
  ELSE ProcessMods(process_stat(acc, mods[i].stat_key, Avg2(mods[i])), mods, i + 1)

\* for node_id in node_list
RECURSIVE ProcessNodes(_, _, _, _, _)
ProcessNodes(acc, node_list, node_effects, parsed_mods, i) ==
  IF i > Len(node_list) THEN acc
  ELSE LET node_id == node_list[i]
           effects == IF node_id \in DOMAIN node_effects THEN node_effects[node_id] ELSE <<>>
           mods == IF node_id \in DOMAIN parsed_mods THEN parsed_mods[node_id] ELSE <<>>
       IN ProcessNodes(ProcessMods(ProcessEffects(acc, effects, 1), mods, 1),
                       node_list, node_effects, parsed_mods, i + 1)

compute_metrics(node_list, node_effects, parsed_mods) ==
  [ProcessNodes(ZeroMetrics, node_list, node_effects, parsed_mods, 1)
     EXCEPT !.total_points = Len(node_list)]

\* the arguments compute_metrics is called with
MaxListed == 2
MetricNodes == 1..3
ModOnlyMin(k, mn) == [stat_key |-> k, mn |-> mn, mx |-> 0, mn_given |-> TRUE, mx_given |-> FALSE]
ModOnlyMax(k, mx) == [stat_key |-> k, mn |-> 0, mx |-> mx, mn_given |-> FALSE, mx_given |-> TRUE]
MetricEffects ==
  { EmptyTable,
    (1 :> <<Effect("Maximum Life", 10), Effect("Armour and Energy Shield", 5)>>)
      @@ (2 :> <<Effect("Life gained on Fire Damage", 3)>>),
    (1 :> <<Effect("critical strike chance", 2), Effect("Movement Speed", 4)>>)
      @@ (2 :> <<Effect("Maximum Life", 0 - 5)>>) }
MetricMods ==
  { EmptyTable,
    (1 :> <<Mod("Lightning Damage", 5, 15), Mod("Maximum Life", 5, 5)>>)
      @@ (2 :> <<Mod("Critical Strike Chance", 2, 2)>>),
    (1 :> <<ModOnlyMin("Maximum Life", 4)>>)
      @@ (2 :> <<ModOnlyMax("Armour and Energy Shield", 6)>>) }

\* ----------------------------------------------------- src/api/utils.py
\* the elements of a set as a list, in the order the rows come back
RECURSIVE ListOf(_)
ListOf(S) ==
  IF S = {} THEN <<>>
  ELSE LET e == CHOOSE x \in S : TRUE IN <<e>> \o ListOf(S \ {e})

\* every order in which the rows of a SELECT without ORDER BY can come back
Orders(S) ==
  {l \in [1..Cardinality(S) -> S] : \A i, j \in DOMAIN l : l[i] = l[j] => i = j}

\* nodes: the node ids of the version; edges: node id -> its neighbours (the
\* entries of the adjacency list, which names a neighbour once per row)
load_passive_graph(db, version_id) ==
  LET nodes == {n \in DOMAIN db.passive_nodes : db.passive_nodes[n].version_id = version_id}
      rows == {e \in db.node_edges : e[3] = version_id}
      ends == nodes \cup {e[1] : e \in rows} \cup {e[2] : e \in rows}
  IN [nodes |-> nodes,
      edges |-> [n \in ends |->
                   {e[2] : e \in {f \in rows : f[1] = n}}
                     \cup {e[1] : e \in {f \in rows : f[2] = n}}]]

load_node_effects(db, version_id) ==
  LET keys == {k \in DOMAIN db.node_effects : k[3] = version_id}
      rows(nid) == ListOf({k \in keys : k[1] = nid})
  IN [nid \in {k[1] : k \in keys} |->
        [i \in DOMAIN rows(nid) |-> Effect(rows(nid)[i][2], db.node_effects[rows(nid)[i]])]]

\* a load_starting_node that falls back to node 1
load_starting_node_or_first(db, class_name, version_id) ==
  LET found == {k[2] : k \in {r \in DOMAIN db.starting_nodes :
                                r[3] = class_name /\ r[1] = version_id}}
  IN IF found = {} THEN {1} ELSE found

\* the node ids load_starting_node can return (LIMIT 1 of the matching
\* rows); none: it raises ValueError
load_starting_node(db, class_name, version_id) ==
  {k[2] : k \in {r \in DOMAIN db.starting_nodes : r[3] = class_name /\ r[1] = version_id}}

\* the lists load_ascendancy_nodes of utils.py can return
api_load_ascendancy_nodes(db, class_name, version_id) ==
  Orders({k[2] : k \in {r \in DOMAIN db.ascendancy_nodes :
                          r[1] = class_name /\ r[3] = version_id}})

\* what load_parsed_mods returns: the rows of mod_parsed, a table that no
\* script of the pipeline fills
BuildMods == {EmptyTable, (2 :> <<Mod("Life", 1, 3)>>)}

\* ------------------------------------------------------------ the database
VARIABLES
  tree_versions,             \* version_id of the tree_versions rows
  raw_trees,                 \* version_id -> raw_json
  passive_nodes,             \* node_id -> the other columns (PRIMARY KEY node_id)
  node_edges,                \* (from_node_id, to_node_id, version_id)
  node_effects,              \* (node_id, stat_key, version_id) -> value
  starting_nodes,            \* (version_id, node_id, class) -> (x, y)
  node_errors,               \* (version_id, node_id, error_type) -> raw_value
  edge_errors,               \* (version_id, from, to, error_type) -> raw_radius
  ascendancy_versions,       \* version_id of the ascendancy_versions rows
  raw_ascendancy_snapshots,  \* version_id -> raw_json
  ascendancy_nodes,          \* (ascendancy, node_id, version_id) -> other columns
  run,                       \* the last script run: its arguments and outcome
  call,                      \* the arguments of the optimize_path call
  selected,                  \* optimize_path: selected
  path,                      \* optimize_path: path
  frontier,                  \* optimize_path: frontier
  pc,                        \* optimize_path: "loop", "ascendancy", "done"
  kind_call,                 \* compute_node_type: its arguments and its result
  mod_call,                  \* parse_modifier: its argument and its result
  score_call,                \* score_build: its arguments and its result
  metrics_call,              \* compute_metrics: its arguments and its result
  build_call                 \* POST /build: the request and the response

tables ==
  <<tree_versions, raw_trees, passive_nodes, node_edges, node_effects,
    starting_nodes, node_errors, edge_errors, ascendancy_versions,
    raw_ascendancy_snapshots, ascendancy_nodes>>

optimizer == <<call, selected, path, frontier, pc>>

classifier == <<kind_call>>

calls == <<mod_call, score_call, metrics_call, build_call>>

vars == <<tables, run, optimizer, classifier, calls>>

\* the committed database, as a connection sees it when it opens
DB ==
  [tree_versions |-> tree_versions, raw_trees |-> raw_trees,
   passive_nodes |-> passive_nodes, node_edges |-> node_edges,
   node_effects |-> node_effects, starting_nodes |-> starting_nodes,
   node_errors |-> node_errors, edge_errors |-> edge_errors,
   ascendancy_versions |-> ascendancy_versions,
   raw_ascendancy_snapshots |-> raw_ascendancy_snapshots,
   ascendancy_nodes |-> ascendancy_nodes]

\* conn.commit()
Commit(db) ==
  /\ tree_versions' = db.tree_versions
  /\ raw_trees' = db.raw_trees
  /\ passive_nodes' = db.passive_nodes
  /\ node_edges' = db.node_edges
  /\ node_effects' = db.node_effects
  /\ starting_nodes' = db.starting_nodes
  /\ node_errors' = db.node_errors
  /\ edge_errors' = db.edge_errors
  /\ ascendancy_versions' = db.ascendancy_versions
  /\ raw_ascendancy_snapshots' = db.raw_ascendancy_snapshots
  /\ ascendancy_nodes' = db.ascendancy_nodes

\* conn.rollback()
Rollback == UNCHANGED tables

\* try: ...; conn.commit()  except Exception: conn.rollback(); raise
Finish(r, script, json_file, vid) ==
  /\ UNCHANGED <<optimizer, classifier, calls>>
  /\ IF r.ok THEN Commit(r.db) ELSE Rollback
  /\ run' = [script |-> script, json_file |-> json_file, version_id |-> vid,
             outcome |-> IF r.ok THEN "committed" ELSE "rolled_back"]

\* scripts/setup_db.py and the error-table migration on a new database file
NewDatabase ==
  /\ tree_versions = {}
  /\ raw_trees = EmptyTable
  /\ passive_nodes = EmptyTable
  /\ node_edges = {}
  /\ node_effects = EmptyTable
  /\ starting_nodes = EmptyTable
  /\ node_errors = EmptyTable
  /\ edge_errors = EmptyTable
  /\ ascendancy_versions = {}
  /\ raw_ascendancy_snapshots = EmptyTable
  /\ ascendancy_nodes = EmptyTable
  /\ run = [script |-> "setup_db", json_file |-> NoDoc, version_id |-> 0,
            outcome |-> "committed"]

\* compute_node_type is not being evaluated
NoKindCall ==
  [skill_id |-> "", details |-> EmptyDetails, node_type |-> "none",
   tagged |-> "none", enriched |-> "none"]

\* score_build is not being evaluated
NoScoreCall == [metrics |-> NoMetrics, goals |-> <<>>, done |-> FALSE, score |-> 0]
\* compute_metrics is not being evaluated
NoMetricsCall ==
  [node_list |-> <<>>, node_effects |-> EmptyTable, parsed_mods |-> EmptyTable,
   done |-> FALSE, metrics |-> ZeroMetrics]
\* no request is being served
NoRequest ==
  [character_class |-> "", goals |-> <<>>, max_points |-> 1, include_ascendancy |-> FALSE]
NoBuildCall ==
  [request |-> NoRequest, status |-> "none", detail |-> <<>>, version_id |-> 0,
   loaded |-> {}, ascendancy_nodes |-> <<>>, nodes |-> <<>>,
   metrics |-> ZeroMetrics, score |-> 0]

\* parse_modifier is not being evaluated
NoParse == [stat_key |-> <<>>, min_value |-> Null, max_value |-> Null, is_range |-> FALSE]
NoModCall == [raw |-> <<>>, done |-> FALSE, result |-> NoParse]

\* no function of the API is being evaluated
NoCalls ==
  /\ mod_call = NoModCall
  /\ score_call = NoScoreCall
  /\ metrics_call = NoMetricsCall
  /\ build_call = NoBuildCall

\* no build request is being served
Init ==
  /\ NewDatabase
  /\ call = NoCall /\ selected = {} /\ path = <<>> /\ frontier = {} /\ pc = "idle"
  /\ kind_call = NoKindCall
  /\ NoCalls

\* python scripts/load_tree401.py --json-file raw --version-id vid
LoadTree401(raw, vid) ==
  /\ NextRowId(ascendancy_versions) <= MaxAscVersion
  /\ Finish(load_tree401_main(DB, raw, vid), "load_tree401", raw, vid)

\* python scripts/tree_etl.py load --json-file data
LoadTree(data) ==
  /\ NextRowId(ascendancy_versions) <= MaxAscVersion
  /\ NextRowId(tree_versions) <= MaxVersion
  /\ Finish(load_tree(DB, data), "tree_etl", data, NextRowId(tree_versions))

\* python scripts/register_tree_version.py --json-file raw
RegisterTreeVersion(raw) ==
  /\ NextRowId(tree_versions) <= MaxVersion
  /\ Finish(register_tree_version_main(DB, raw), "register_tree_version", raw,
            NextRowId(tree_versions))

Next ==
  \/ \E raw \in StoreDocs, vid \in 1..MaxVersion : LoadTree401(raw, vid)
  \/ \E data \in StoreDocs : LoadTree(data)
  \/ \E raw \in StoreDocs : RegisterTreeVersion(raw)

Spec == Init /\ [][Next]_vars

\* ---------------------------------------------------------------------
\* One load of any document into a new database, and the same load again.
\* nothing has run since the schema was created
Fresh == run.script = "setup_db"

FirstLoadTree401 == Fresh /\ \E raw \in Docs, vid \in 1..MaxVersion : LoadTree401(raw, vid)

FirstLoadTree == Fresh /\ \E data \in Docs : LoadTree(data)

ReloadTree401 ==
  /\ run.script = "load_tree401" /\ run.outcome = "committed"
  /\ LoadTree401(run.json_file, run.version_id)

NextNorm == FirstLoadTree401 \/ FirstLoadTree \/ ReloadTree401

SpecNorm == Init /\ [][NextNorm]_vars

\* ---------------------------------------------------------------------
\* One call of optimize_path, a step per iteration of its greedy loop.
InitOpt ==
  /\ NewDatabase
  /\ call \in OptCalls
  /\ selected = {call.start_node}
  /\ path = <<call.start_node>>
  /\ frontier = Neighbours(call.edges, call.start_node) \ {call.start_node}
  /\ pc = "loop"
  /\ kind_call = NoKindCall
  /\ NoCalls

\* a while condition that compares with <=
LoopContinues_inclusive == Len(path) <= call.max_points /\ frontier # {}

LoopContinues == Len(path) < call.max_points /\ frontier # {}

\* one iteration that selects best_node
GreedyStep ==
  /\ pc = "loop" /\ LoopContinues
  /\ \E best_node \in BestNodes(call, frontier) :
       /\ selected' = selected \cup {best_node}
       /\ path' = Append(path, best_node)
       /\ frontier' = Expand(call, frontier, selected \cup {best_node}, best_node)
  /\ UNCHANGED <<call, pc, tables, run, classifier, calls>>

\* the while condition fails, or no frontier node has a positive score (break)
LoopExit ==
  /\ pc = "loop"
  /\ ~LoopContinues \/ BestNodes(call, frontier) = {}
  /\ pc' = "ascendancy"
  /\ UNCHANGED <<call, selected, path, frontier, tables, run, classifier, calls>>

\* the append of the ascendancy ids, and return path
AppendAscendancy ==
  /\ pc = "ascendancy"
  /\ path' = path \o Appended(call, path)
  /\ pc' = "done"
  /\ UNCHANGED <<call, selected, frontier, tables, run, classifier, calls>>

NextOpt == GreedyStep \/ LoopExit \/ AppendAscendancy

SpecOpt == InitOpt /\ [][NextOpt]_vars

\* ---------------------------------------------------------------------
\* One evaluation of compute_node_type(skill_id, details).
KindSkillIds ==
  AscendancyPrefixed \cup SocketMarked \cup StartMarked \cup SmallMarked \cup Unmarked

\* the catalog flags compute_node_type reads, in every combination
KindDetails ==
  {[EmptyDetails EXCEPT !.is_keystone = f[1], !.is_notable = f[2],
                        !.is_just_icon = f[3], !.is_multiple_choice = f[4]] :
     f \in BOOLEAN \X BOOLEAN \X BOOLEAN \X BOOLEAN}

InitKind ==
  /\ NewDatabase
  /\ call = NoCall /\ selected = {} /\ path = <<>> /\ frontier = {} /\ pc = "idle"
  /\ kind_call \in [skill_id : KindSkillIds, details : KindDetails, node_type : {"none"},
                     tagged : {"none"}, enriched : {"none"}]
  /\ NoCalls

Classify ==
  /\ kind_call.node_type = "none"
  /\ kind_call' = [kind_call EXCEPT
                      !.node_type = compute_node_type(kind_call.skill_id, kind_call.details)]
  /\ UNCHANGED <<tables, run, optimizer, calls>>

\* analyze_tree401 tags a node that has the same skill reference and flags
TagNode ==
  /\ kind_call.tagged = "none"
  /\ kind_call' = [kind_call EXCEPT
                      !.tagged = analyze_tree401_node_type(kind_call.skill_id,
                                                           kind_call.details)]
  /\ UNCHANGED <<tables, run, optimizer, calls>>

\* parse_poe2_tree enriches a node that has the same skill reference and flags
EnrichNode ==
  /\ kind_call.enriched = "none"
  /\ kind_call' = [kind_call EXCEPT
                      !.enriched = parse_poe2_tree_node_type(kind_call.skill_id,
                                                             kind_call.details)]
  /\ UNCHANGED <<tables, run, optimizer, calls>>

NextKind == Classify \/ TagNode \/ EnrichNode

SpecKind == InitKind /\ [][NextKind]_vars

\* ---------------------------------------------------------------------
\* One evaluation of parse_modifier(raw).
InitMod ==
  /\ NewDatabase
  /\ call = NoCall /\ selected = {} /\ path = <<>> /\ frontier = {} /\ pc = "idle"
  /\ kind_call = NoKindCall
  /\ mod_call \in [raw : RawTexts, done : {FALSE}, result : {NoParse}]
  /\ score_call = NoScoreCall
  /\ metrics_call = NoMetricsCall
  /\ build_call = NoBuildCall

ParseModifier ==
  /\ ~mod_call.done
  /\ mod_call' = [mod_call EXCEPT !.done = TRUE, !.result = parse_modifier(mod_call.raw)]
  /\ UNCHANGED <<tables, run, optimizer, classifier, score_call, metrics_call, build_call>>

NextMod == ParseModifier

SpecMod == InitMod /\ [][NextMod]_vars

\* ---------------------------------------------------------------------
\* One evaluation of score_build(metrics, goals).
InitScore ==
  /\ NewDatabase
  /\ call = NoCall /\ selected = {} /\ path = <<>> /\ frontier = {} /\ pc = "idle"
  /\ kind_call = NoKindCall
  /\ mod_call = NoModCall
  /\ score_call \in [metrics : MetricsValues, goals : SeqsUpTo(GoalLabels, MaxGoals),
                      done : {FALSE}, score : {0}]
  /\ metrics_call = NoMetricsCall
  /\ build_call = NoBuildCall

ScoreBuild ==
  /\ ~score_call.done
  /\ score_call' = [score_call EXCEPT
                       !.done = TRUE,
                       !.score = score_build(score_call.metrics, score_call.goals)]
  /\ UNCHANGED <<tables, run, optimizer, classifier, mod_call, metrics_call, build_call>>

NextScore == ScoreBuild

SpecScore == InitScore /\ [][NextScore]_vars

\* ---------------------------------------------------------------------
\* One evaluation of compute_metrics(node_list, node_effects, parsed_mods).
InitMetrics ==
  /\ NewDatabase
  /\ call = NoCall /\ selected = {} /\ path = <<>> /\ frontier = {} /\ pc = "idle"
  /\ kind_call = NoKindCall
  /\ mod_call = NoModCall
  /\ score_call = NoScoreCall
  /\ metrics_call \in [node_list : SeqsUpTo(MetricNodes, MaxListed),
                        node_effects : MetricEffects, parsed_mods : MetricMods,
                        done : {FALSE}, metrics : {ZeroMetrics}]
  /\ build_call = NoBuildCall

ComputeMetrics ==
  /\ ~metrics_call.done
  /\ metrics_call' =
       [metrics_call EXCEPT
          !.done = TRUE,
          !.metrics = compute_metrics(metrics_call.node_list, metrics_call.node_effects,
                                      metrics_call.parsed_mods)]
  /\ UNCHANGED <<tables, run, optimizer, classifier, mod_call, score_call, build_call>>

NextMetrics == ComputeMetrics

SpecMetrics == InitMetrics /\ [][NextMetrics]_vars

\* ---------------------------------------------------------------------
\* Pipeline runs, then one POST /build request: the loads, the optimizer
\* run step by step, and the response.
DocNode(skill_id, conns) ==
  [skill_id |-> skill_id, position |-> "dict", px |-> 3, py |-> 4,
   parent |-> GroupId, connections |-> conns]
\* node 1: a class start, a class start inside the ascendancy, or a node
\* with a connection that has no id
BuildNode1 ==
  { DocNode(SmallLife, <<[id |-> 2, radius |-> PlainRadius]>>)
      @@ ("classesStart" :> <<"Warrior">>),
    DocNode(AscendancyWarrior, <<[id |-> 2, radius |-> PlainRadius]>>)
      @@ ("classesStart" :> <<"Warrior">>) @@ ("ascendancyName" :> "Warrior"),
    DocNode(SmallLife, <<[id |-> NoId, radius |-> PlainRadius]>>) }
BuildNode2 ==
  { DocNode(NotableArmour, <<>>),
    DocNode(AscendancyWarrior, <<>>) @@ ("ascendancyName" :> "Warrior") }
BuildDocs ==
  {[sections |-> {"nodes", "groups", "root_passives"}, nodes |-> (1 :> n1)] :
     n1 \in BuildNode1}
    \cup {[sections |-> {"nodes", "groups", "root_passives"},
           nodes |-> (1 :> n1) @@ (2 :> n2)] : n1 \in BuildNode1, n2 \in BuildNode2}

BuildRequests ==
  [character_class : {"Warrior", "Ranger"}, goals : {<<"tanky">>},
   max_points : {2}, include_ascendancy : BOOLEAN]

\* no request has arrived
NoRequestYet == build_call = NoBuildCall /\ pc = "idle"

BuildLoadTree401 ==
  NoRequestYet /\ \E raw \in BuildDocs, vid \in 1..MaxVersion : LoadTree401(raw, vid)
BuildLoadTree == NoRequestYet /\ \E data \in BuildDocs : LoadTree(data)
BuildRegisterTreeVersion == NoRequestYet /\ \E raw \in BuildDocs : RegisterTreeVersion(raw)

\* raise HTTPException(status_code=500, detail=...)
Answer500(req, version_id, loaded, detail) ==
  /\ build_call' = [NoBuildCall EXCEPT !.request = req, !.status = "500",
                                       !.detail = detail, !.version_id = version_id,
                                       !.loaded = loaded]
  /\ UNCHANGED optimizer

TryLoaded ==
  {"load_passive_graph", "load_node_effects", "load_parsed_mods", "load_starting_node"}

\* build, up to the call of optimize_path
Build(req) ==
  /\ NoRequestYet
  /\ IF tree_versions = {}
     THEN Answer500(req, 0, {}, <<"No tree versions available">>)
     ELSE LET version_id == SetMax(tree_versions)
              graph == load_passive_graph(DB, version_id)
              starts == load_starting_node(DB, req.character_class, version_id)
          IN IF starts = {}
             THEN Answer500(req, version_id, TryLoaded,
                            <<"Starting node not found for class", req.character_class>>)
             ELSE \E start_node \in starts, parsed_mods \in BuildMods,
                     ascendancy \in (IF req.include_ascendancy
                                     THEN api_load_ascendancy_nodes(DB, req.character_class,
                                                                    version_id)
                                     ELSE {<<>>}) :
                    /\ call' = [edges |-> graph.edges,
                                node_effects |-> load_node_effects(DB, version_id),
                                parsed_mods |-> parsed_mods, start_node |-> start_node,
                                ascendancy_nodes |-> ascendancy, goals |-> req.goals,
                                max_points |-> req.max_points]
                    /\ selected' = {start_node}
                    /\ path' = <<start_node>>
                    /\ frontier' = Neighbours(graph.edges, start_node) \ {start_node}
                    /\ pc' = "loop"
                    /\ build_call' =
                         [NoBuildCall EXCEPT
                            !.request = req, !.status = "serving",
                            !.version_id = version_id,
                            !.loaded = TryLoaded \cup
                              (IF req.include_ascendancy THEN {"load_ascendancy_nodes"} ELSE {}),
                            !.ascendancy_nodes = ascendancy]
  /\ UNCHANGED <<tables, run, classifier, mod_call, score_call, metrics_call>>

\* build, after optimize_path has returned
BuildRespond ==
  /\ build_call.status = "serving" /\ pc = "done"
  /\ LET metrics == compute_metrics(path, call.node_effects, call.parsed_mods)
     IN build_call' = [build_call EXCEPT
                         !.status = "200", !.nodes = path, !.metrics = metrics,
                         !.score = score_build(metrics, build_call.request.goals)]
  /\ call' = NoCall /\ selected' = {} /\ path' = <<>> /\ frontier' = {} /\ pc' = "idle"
  /\ UNCHANGED <<tables, run, classifier, mod_call, score_call, metrics_call>>

NextBuild ==
  \/ BuildLoadTree401
  \/ BuildLoadTree
  \/ BuildRegisterTreeVersion
  \/ \E req \in BuildRequests : Build(req)
  \/ GreedyStep
  \/ LoopExit
  \/ AppendAscendancy
  \/ BuildRespond

SpecBuild == Init /\ [][NextBuild]_vars

\* ------------------------------------------------------------ properties
\* the rows of version v in each versioned table
NodeRowsOf(nodes, v) == {<<nid, nodes[nid]>> : nid \in {n \in DOMAIN nodes : nodes[n].version_id = v}}
EdgeRowsOf(edges, v) == {e \in edges : e[3] = v}
EffectRowsOf(effects, v) == {<<k, effects[k]>> : k \in {e \in DOMAIN effects : e[3] = v}}
LedgerRowsOf(ledger, v) == {<<k, ledger[k]>> : k \in {e \in DOMAIN ledger : e[1] = v}}

\* the connection entries of a document: (source node id, entry)
RawConnections(doc) ==
  UNION {{<<nid, c>> : c \in Connections(doc.nodes[nid])} : nid \in DOMAIN doc.nodes}

Loaders == {"load_tree401", "tree_etl"}

\* C1: a run that loads one version leaves the passive_nodes, node_edges and
\* node_effects rows of every other version as they were, also when the
\* document reuses node ids of the earlier version.
C1_EarlierVersionsUnchanged ==
  [][\A v \in 1..MaxVersion :
       v # run'.version_id =>
         /\ NodeRowsOf(passive_nodes', v) = NodeRowsOf(passive_nodes, v)
         /\ EdgeRowsOf(node_edges', v) = EdgeRowsOf(node_edges, v)
         /\ EffectRowsOf(node_effects', v) = EffectRowsOf(node_effects, v)]_vars

\* a reader finds some row of version v
VersionVisible(v) ==
  \/ v \in tree_versions
  \/ v \in DOMAIN raw_trees
  \/ NodeRowsOf(passive_nodes, v) # {}
  \/ EdgeRowsOf(node_edges, v) # {}
  \/ EffectRowsOf(node_effects, v) # {}
  \/ \E k \in DOMAIN starting_nodes : k[1] = v

\* the edges and effects of the stored raw document of v are all stored
VersionLoaded(v) ==
  /\ v \in DOMAIN raw_trees
  /\ RawEdges(v, raw_trees[v].nodes) \subseteq node_edges
  /\ \A nid \in DOMAIN raw_trees[v].nodes :
       \A st \in Range(Details(PassiveSkills, raw_trees[v].nodes[nid].skill_id).stats) :
         <<nid, st.key, v>> \in DOMAIN node_effects

\* C2: once a run that raised has ended, its version is not visible in any
\* tree table unless that version is completely loaded.
C2_FailedRunLeavesNoVersion ==
  (run.outcome = "rolled_back" /\ VersionVisible(run.version_id))
    => VersionLoaded(run.version_id)

\* C3: every stored edge (A, B) of a version has its mirror (B, A) stored for
\* the same version.
C3_SymmetryInvariant ==
  \A e \in node_edges : <<e[2], e[1], e[3]>> \in node_edges

\* a committed load_tree401 run whose document has a one-directional
\* connection, the reverse edge being stored
C3_Witness ==
  /\ run.script = "load_tree401" /\ run.outcome = "committed"
  /\ \E rc \in RawConnections(run.json_file) :
       /\ rc[2].id # rc[1]
       /\ \A back \in RawConnections(run.json_file) :
            ~(back[1] = rc[2].id /\ back[2].id = rc[1])
       /\ <<rc[2].id, rc[1], run.version_id>> \in node_edges

\* C4: no edge (N, N) is stored, and every raw connection of a loaded
\* document whose target is its own source has a 'self_loop' ledger entry.
C4_NoSelfLoops ==
  /\ \A e \in node_edges : e[1] # e[2]
  /\ \A v \in DOMAIN raw_trees : \A rc \in RawConnections(raw_trees[v]) :
       rc[2].id = rc[1] =>
         <<v, rc[1], rc[1], "self_loop">> \in DOMAIN edge_errors

\* C5: every raw connection of a loaded document whose radius is the sentinel
\* has its edge stored and one 'outlier_radius' ledger entry holding the raw
\* value.
C5_SentinelClamp ==
  \A v \in DOMAIN raw_trees : \A rc \in RawConnections(raw_trees[v]) :
    rc[2].radius = SENTINEL_RADIUS =>
      /\ <<rc[1], rc[2].id, v>> \in node_edges
      /\ <<v, rc[1], rc[2].id, "outlier_radius">> \in DOMAIN edge_errors
      /\ edge_errors[<<v, rc[1], rc[2].id, "outlier_radius">>] = SENTINEL_RADIUS

\* C6: a raw connection of a loaded document whose target is not a node of
\* the document has no edge in either direction and an 'orphaned_connection'
\* ledger entry.
C6_OrphanedConnections ==
  \A v \in DOMAIN raw_trees : \A rc \in RawConnections(raw_trees[v]) :
    rc[2].id \notin DOMAIN raw_trees[v].nodes =>
      /\ <<rc[1], rc[2].id, v>> \notin node_edges
      /\ <<rc[2].id, rc[1], v>> \notin node_edges
      /\ <<v, rc[1], rc[2].id, "orphaned_connection">> \in DOMAIN edge_errors

\* the nodes of a document whose position load_tree401 cannot resolve
Unplaced(doc) ==
  {nid \in DOMAIN doc.nodes : ~extract_position(doc.nodes[nid], DocGroups(doc)).ok}

\* C7: a load_tree401 run over a document whose only defect is unresolvable
\* positions commits, records a 'missing_position' ledger entry for each such
\* node, stores no node row for it and stores the rows of the other nodes.
C7_MissingPositionNonFatal ==
  (/\ run.script = "load_tree401"
   /\ Unplaced(run.json_file) # {}
   /\ ~BadConnection(run.json_file.nodes)
   /\ {"nodes", "groups"} \subseteq run.json_file.sections)
    => /\ run.outcome = "committed"
       /\ \A nid \in Unplaced(run.json_file) :
            /\ <<run.version_id, nid, "missing_position">> \in DOMAIN node_errors
            /\ ~(nid \in DOMAIN passive_nodes
                 /\ passive_nodes[nid].version_id = run.version_id)
       /\ \A nid \in DOMAIN run.json_file.nodes \ Unplaced(run.json_file) :
            nid \in DOMAIN passive_nodes
              /\ passive_nodes[nid].version_id = run.version_id

\* C8: a load of a document without a nodes section or without a groups
\* section raises, and no row of the run's version is committed.
C8_StructuralFailure ==
  (/\ run.script \in Loaders
   /\ ~({"nodes", "groups"} \subseteq run.json_file.sections))
    => /\ run.outcome = "rolled_back"
       /\ ~VersionVisible(run.version_id)

\* C9: loading the same document for the same version id a second time
\* leaves the node, edge, effect and ledger rows of that version as the first
\* load left them.
C9_Idempotence ==
  [][(run.script = "load_tree401" /\ run.outcome = "committed" /\ run' = run) =>
       LET v == run.version_id
       IN /\ NodeRowsOf(passive_nodes', v) = NodeRowsOf(passive_nodes, v)
          /\ EdgeRowsOf(node_edges', v) = EdgeRowsOf(node_edges, v)
          /\ EffectRowsOf(node_effects', v) = EffectRowsOf(node_effects, v)
          /\ LedgerRowsOf(node_errors', v) = LedgerRowsOf(node_errors, v)
          /\ LedgerRowsOf(edge_errors', v) = LedgerRowsOf(edge_errors, v)]_vars

\* the second load of a document has committed; the version has node, edge,
\* effect and ledger rows, one effect with a non-zero value
C9_Witness ==
  /\ run.script = "load_tree401" /\ run.outcome = "committed"
  /\ Cardinality(ascendancy_versions) = 2
  /\ raw_ascendancy_snapshots[1] = raw_ascendancy_snapshots[2]
  /\ NodeRowsOf(passive_nodes, run.version_id) # {}
  /\ EdgeRowsOf(node_edges, run.version_id) # {}
  /\ LedgerRowsOf(node_errors, run.version_id) # {}
  /\ \E k \in DOMAIN node_effects : k[3] = run.version_id /\ node_effects[k] # 0

\* some earlier element of p is a neighbour of p[i], for every i > 1
Connected(p) ==
  \A i \in 2..Len(p) : \E j \in 1..(i - 1) : p[i] \in Neighbours(call.edges, p[j])

\* C10 (as stated): every node of the returned sequence other than the start
\* node has a neighbour earlier in the sequence.
C10_ReturnedPathConnected == pc = "done" => Connected(path)

\* the part of path that the greedy loop built: the loop appends a node to
\* path exactly when it adds it to selected, the ascendancy append only to path
GreedyPart == SubSeq(path, 1, Cardinality(selected))

\* C10 (amended): every node that the greedy loop added to the sequence has a
\* neighbour earlier in the sequence; the ascendancy ids appended after the
\* loop need not have one.
C10_GreedyPathConnected == Connected(GreedyPart)

\* a call has returned the start node, a node of the greedy loop and an
\* appended ascendancy id that has no neighbour in the sequence
C10_Witness ==
  /\ pc = "done" /\ Cardinality(selected) = 2 /\ Len(path) = 3
  /\ ~Connected(path)

\* C11 (as stated): the returned sequence is never longer than max_points,
\* for every integer max_points.
C11_BudgetRespected == pc = "done" => Len(path) <= call.max_points

\* C11 (amended): when max_points is at least 1, the sequence is never longer
\* than max_points, during the call and when it returns.
C11_BudgetRespectedFromOne == call.max_points >= 1 => Len(path) <= call.max_points

\* a call has returned a sequence of max_points nodes, some of them chosen by
\* the loop, and not all ascendancy ids fitted
C11_Witness ==
  /\ pc = "done" /\ Len(path) = call.max_points
  /\ Cardinality(selected) >= 2
  /\ Len(call.ascendancy_nodes) > call.max_points - Cardinality(selected)

\* C12: with max_points = 1 the returned sequence is the start node alone.
C12_SinglePoint ==
  (pc = "done" /\ call.max_points = 1) => path = <<call.start_node>>

\* a call with max_points = 1 has returned although a neighbour of the start
\* node has a positive score and ascendancy ids were given
C12_Witness ==
  /\ pc = "done" /\ call.max_points = 1
  /\ BestNodes(call, frontier) # {}
  /\ call.ascendancy_nodes # <<>>

\* no node of the frontier has a strictly positive score
NothingToGain == \A n \in frontier : Score(call, n) <= 0

\* C13: an iteration of the greedy loop adds nothing when no frontier node
\* has a strictly positive score, every node it adds has a score > 0, and
\* when no goal of the list is known the loop leaves the start node alone.
C13_EarlyStop ==
  [][pc = "loop" =>
       /\ NothingToGain => (path' = path /\ selected' = selected)
       /\ path' # path => Score(call, path'[Len(path')]) > 0
       /\ build_stat_weights(call.goals) = {} => path' = <<call.start_node>>]_vars

\* the loop has added a node and then stopped with budget left and a
\* non-empty frontier
C13_Witness ==
  /\ pc = "done" /\ Cardinality(selected) >= 2
  /\ Cardinality(selected) < call.max_points
  /\ frontier # {} /\ NothingToGain

\* the stat keys of the static effects and parsed modifiers of node n
StatKeysOf(n) ==
  {e.stat_key : e \in Range(IF n \in DOMAIN call.node_effects
                             THEN call.node_effects[n] ELSE <<>>)}
    \cup {m.stat_key : m \in Range(IF n \in DOMAIN call.parsed_mods
                                    THEN call.parsed_mods[n] ELSE <<>>)}

\* C14: under goals = ['tanky'] a node whose only stat key is 'Lightning
\* Damage' has score 0 and is never selected by the greedy loop.
C14_TankyIgnoresLightning ==
  call.goals = <<"tanky">> =>
    \A n \in OptNodes :
      StatKeysOf(n) = {"Lightning Damage"} =>
        /\ Score(call, n) = 0
        /\ n # call.start_node => n \notin selected

\* under goals = ['tanky'] the loop has selected a node while a node with a
\* 'Lightning Damage' effect and modifier was in the frontier, and returned
C14_Witness ==
  /\ pc = "done" /\ call.goals = <<"tanky">>
  /\ Cardinality(selected) >= 2
  /\ \E n \in frontier :
       /\ StatKeysOf(n) = {"Lightning Damage"}
       /\ n \in DOMAIN call.parsed_mods

\* the kinds in their priority order, and the test that admits each
KindOrder ==
  <<"Ascendancy", "Keystone", "Notable", "Mastery", "Choice", "Jewel Socket",
    "Start", "Small", "Regular">>

KindApplies(kind, skill_id, details) ==
  CASE kind = "Ascendancy" -> skill_id \in AscendancyPrefixed
    [] kind = "Keystone" -> details.is_keystone
    [] kind = "Notable" -> details.is_notable
    [] kind = "Mastery" -> details.is_just_icon
    [] kind = "Choice" -> details.is_multiple_choice
    [] kind = "Jewel Socket" -> skill_id \in SocketMarked
    [] kind = "Start" -> skill_id \in StartMarked
    [] kind = "Small" -> skill_id \in SmallMarked
    [] kind = "Regular" -> TRUE

\* C15: compute_node_type returns the first kind of the priority order whose
\* test the arguments pass; with is_keystone and is_notable both set the
\* result is never Notable, and is Keystone unless the Ascendancy prefix wins.
C15_PriorityOrder ==
  kind_call.node_type # "none" =>
    LET sid == kind_call.skill_id
        det == kind_call.details
        first == CHOOSE i \in DOMAIN KindOrder :
                   /\ KindApplies(KindOrder[i], sid, det)
                   /\ \A j \in 1..(i - 1) : ~KindApplies(KindOrder[j], sid, det)
    IN /\ kind_call.node_type = KindOrder[first]
       /\ (det.is_keystone /\ det.is_notable) =>
            /\ kind_call.node_type # "Notable"
            /\ sid \notin AscendancyPrefixed => kind_call.node_type = "Keystone"

\* a reference with the Small, Start and socket markers whose entry has every
\* flag set has been classified as Keystone
C15_Witness ==
  /\ kind_call.node_type = "Keystone"
  /\ kind_call.skill_id = "SmallSocketStart"
  /\ kind_call.details.is_keystone /\ kind_call.details.is_notable
  /\ kind_call.details.is_just_icon /\ kind_call.details.is_multiple_choice

\* the nodes of a document whose skill reference is not in the catalog
Unlisted(doc) ==
  {nid \in DOMAIN doc.nodes : doc.nodes[nid].skill_id \notin DOMAIN DocSkills(doc)}

\* a defect of the document, other than a lookup miss, that makes
\* load_tree401 raise
OtherDefect(doc) ==
  \/ Unplaced(doc) # {}
  \/ BadConnection(doc.nodes)
  \/ (DocRoots(doc) # <<>> /\ "nodes" \notin doc.sections)

\* node nid of the run's version is stored with an empty name, has no effect
\* rows and has one ledger entry, of kind 'missing_skill'
StoredWithoutCatalog(nid) ==
  /\ nid \in DOMAIN passive_nodes
  /\ passive_nodes[nid].version_id = run.version_id
  /\ passive_nodes[nid].name = ""
  /\ \A k \in DOMAIN node_effects : ~(k[1] = nid /\ k[3] = run.version_id)
  /\ {k \in DOMAIN node_errors : k[1] = run.version_id /\ k[2] = nid}
       = {<<run.version_id, nid, "missing_skill">>}
  /\ node_errors[<<run.version_id, nid, "missing_skill">>]
       = run.json_file.nodes[nid].skill_id

KindOfReference(skill_id) ==
  KindOrder[CHOOSE i \in DOMAIN KindOrder :
              /\ KindApplies(KindOrder[i], skill_id, EmptyDetails)
              /\ \A j \in 1..(i - 1) : ~KindApplies(KindOrder[j], skill_id, EmptyDetails)]

C18_NoSharedVersionId ==
  [][(run'.script \in Loaders /\ run'.outcome = "committed") =>
       LET v == run'.version_id
       IN /\ NodeRowsOf(passive_nodes, v) = {}
          /\ EdgeRowsOf(node_edges, v) = {}
          /\ EffectRowsOf(node_effects, v) = {}]_vars

\* the connection entries of a document, by node and position in its list
Entries(doc) ==
  UNION {{<<nid, i>> : i \in DOMAIN Get(doc.nodes[nid], "connections", <<>>)} :
         nid \in DOMAIN doc.nodes}
Source(doc, e) == e[1]
Target(doc, e) == ConnId(doc.nodes[e[1]].connections[e[2]])

ListedOnce(doc) ==
  \A e \in Entries(doc) : \A f \in Entries(doc) \ {e} :
    /\ <<Source(doc, e), Target(doc, e)>> # <<Source(doc, f), Target(doc, f)>>
    /\ <<Source(doc, e), Target(doc, e)>> # <<Target(doc, f), Source(doc, f)>>

StatCount(doc, nid) ==
  Len(Details(DocSkills(doc), Get(doc.nodes[nid], "skill_id", "")).stats)

\* the number of stat entries over the nodes S of the document
RECURSIVE StatTotal(_, _)
StatTotal(doc, S) ==
  IF S = {} THEN 0
  ELSE LET nid == CHOOSE e \in S : TRUE
       IN StatCount(doc, nid) + StatTotal(doc, S \ {nid})

C21_MinLeMax ==
  (mod_call.done /\ mod_call.result.min_value # Null /\ mod_call.result.max_value # Null) =>
    ~Less(mod_call.result.max_value, mod_call.result.min_value)

\* what one goal label is worth by the weight tables of GOAL_CRITERIA
GoalWorth(metrics, goal) ==
  LET damage(dt) == IF dt \in DOMAIN metrics.damage_inc THEN metrics.damage_inc[dt] ELSE 0
  IN CASE goal \in {"tanky", "TANKY"} ->
            6 * metrics.life + 3 * metrics.armor + 1 * metrics.eshield
       [] goal \in {"bossing", "Bossing"} ->
            4 * damage("Lightning Damage") + 3 * damage("Projectile Damage")
              + 3 * metrics.crit_chance
       [] OTHER -> 0

RECURSIVE SumOfWorths(_, _)
SumOfWorths(metrics, goals) ==
  IF goals = <<>> THEN 0
  ELSE GoalWorth(metrics, Head(goals)) + SumOfWorths(metrics, Tail(goals))

RECURSIVE SumOfSingles(_, _)
SumOfSingles(metrics, goals) ==
  IF goals = <<>> THEN 0
  ELSE score_build(metrics, <<Head(goals)>>) + SumOfSingles(metrics, Tail(goals))

\* C22: the score of a goal list is the sum of the scores of its goals taken
\* alone; an unknown label is worth zero and a known one the sum of weight
\* times metric value over its weight table.
C22_ScoreAdditive ==
  score_call.done =>
    /\ score_call.score = SumOfSingles(score_call.metrics, score_call.goals)
    /\ score_call.score = SumOfWorths(score_call.metrics, score_call.goals)

\* tanky and bossing together, scored on metrics where both are worth something
C22_Witness ==
  /\ score_call.done
  /\ score_call.goals = <<"tanky", "Bossing">>
  /\ GoalWorth(score_call.metrics, "tanky") > 0
  /\ GoalWorth(score_call.metrics, "bossing") > 0
  /\ score_call.score
       = GoalWorth(score_call.metrics, "tanky") + GoalWorth(score_call.metrics, "bossing")

\* the stat entries behind a node list: <<"effect" or "mod", position in the
\* list, index in the node's entries>>
StatEntries(c) ==
  UNION {{<<"effect", p, i>> :
            i \in DOMAIN (IF c.node_list[p] \in DOMAIN c.node_effects
                          THEN c.node_effects[c.node_list[p]] ELSE <<>>)}
           \cup {<<"mod", p, i>> :
                   i \in DOMAIN (IF c.node_list[p] \in DOMAIN c.parsed_mods
                                 THEN c.parsed_mods[c.node_list[p]] ELSE <<>>)} :
         p \in DOMAIN c.node_list}
EntryKey(c, e) ==
  IF e[1] = "effect" THEN c.node_effects[c.node_list[e[2]]][e[3]].stat_key
  ELSE c.parsed_mods[c.node_list[e[2]]][e[3]].stat_key
\* twice the static value, or twice the average of the parsed range (the
\* minimum when no maximum is given, zero when no minimum is given)
EntryValue(c, e) ==
  IF e[1] = "effect" THEN 2 * c.node_effects[c.node_list[e[2]]][e[3]].value
  ELSE LET m == c.parsed_mods[c.node_list[e[2]]][e[3]]
       IN IF ~m.mn_given THEN 0 ELSE IF m.mx_given THEN m.mn + m.mx ELSE m.mn + m.mn

RECURSIVE SumValues(_, _)
SumValues(c, S) ==
  IF S = {} THEN 0
  ELSE LET e == CHOOSE x \in S : TRUE IN EntryValue(c, e) + SumValues(c, S \ {e})

\* the total of the entries whose key contains the substring
BucketOf(c, substring) ==
  SumValues(c, {e \in StatEntries(c) : substring \in Contained(EntryKey(c, e))})

\* C23: total_points is the length of the node list and every bucket is the
\* sum of the values of the listed nodes whose stat key contains the bucket's
\* substring, a key counting for every bucket it matches; no node gives zeros.
C23_PureAggregation ==
  metrics_call.done =>
    LET c == metrics_call
        m == metrics_call.metrics
    IN /\ m.total_points = Len(c.node_list)
       /\ m.life = BucketOf(c, "Life")
       /\ m.armor = BucketOf(c, "Armour")
       /\ m.eshield = BucketOf(c, "Energy Shield")
       /\ m.crit_chance = SumValues(c, {e \in StatEntries(c) : CritSearch(EntryKey(c, e))})
       /\ \A dt \in DAMAGE_TYPES : m.damage_inc[dt] = BucketOf(c, dt)
       /\ c.node_list = <<>> => m = ZeroMetrics

\* two listed nodes, one of them with a key that counts for two buckets
C23_Witness ==
  /\ metrics_call.done
  /\ Len(metrics_call.node_list) = 2
  /\ \E e \in StatEntries(metrics_call) :
       Cardinality(Contained(EntryKey(metrics_call, e))) = 2
  /\ metrics_call.metrics.armor > 0
  /\ metrics_call.metrics.eshield = metrics_call.metrics.armor
  /\ metrics_call.metrics.life > 0

\* the starting_nodes rows of the class in the latest tree version
StartRows(class_name) ==
  {r \in DOMAIN starting_nodes : r[3] = class_name /\ r[1] = SetMax(tree_versions)}

\* C24: a request for a class without a starting node in the version used is
\* answered 500 with the message of the error, and optimize_path is not
\* run; with no tree version the answer is 500 and nothing is loaded.
C24_StartNodeError ==
  build_call.status # "none" =>
    /\ tree_versions = {} =>
         /\ build_call.status = "500"
         /\ build_call.detail = <<"No tree versions available">>
         /\ build_call.loaded = {}
         /\ call = NoCall /\ pc = "idle"
    /\ (tree_versions # {} /\ StartRows(build_call.request.character_class) = {}) =>
         /\ build_call.status = "500"
         /\ build_call.detail
              = <<"Starting node not found for class", build_call.request.character_class>>
         /\ build_call.nodes = <<>>
         /\ call = NoCall /\ pc = "idle"

\* a Ranger request on a version that has a starting node for the Warrior only
C24_Witness ==
  /\ build_call.status = "500"
  /\ build_call.request.character_class = "Ranger"
  /\ tree_versions # {}
  /\ StartRows("Warrior") # {}
  /\ build_call.detail = <<"Starting node not found for class", "Ranger">>

\* C25: the node a loop iteration appends is a frontier node that no other
\* frontier node outscores; it leaves the frontier, and exactly its
\* neighbours that are not selected join it.
C25_GreedyChoice ==
  [][(pc = "loop" /\ Len(path') = Len(path) + 1) =>
       LET best == path'[Len(path')]
           nbrs == IF best \in DOMAIN call.edges THEN call.edges[best] ELSE {}
       IN /\ best \in frontier
          /\ \A other \in frontier : Score(call, other) <= Score(call, best)
          /\ selected' = selected \cup {best}
          /\ best \notin frontier'
          /\ frontier' \ frontier = {n \in nbrs : n \notin selected' /\ n \notin frontier}
          /\ frontier \ frontier' = {best}]_vars

\* the first iteration chose between two neighbours of the start node that
\* both score, and took the better one
C25_Witness ==
  /\ Len(path) >= 2 /\ pc = "loop"
  /\ \E other \in Neighbours(call.edges, call.start_node) \ {call.start_node, path[2]} :
       /\ Score(call, other) > 0
       /\ Score(call, other) < Score(call, path[2])
       /\ other \in frontier

\* C26: after the loop, with a non-empty ascendancy list and a path shorter
\* than max_points, the first min(len(ascendancy_nodes), max_points - len(path))
\* ascendancy ids are appended in their order; otherwise nothing is appended.
C26_AscendancyAppend ==
  [][pc = "ascendancy" =>
       LET asc == call.ascendancy_nodes
           room == call.max_points - Len(path)
           k == IF asc = <<>> \/ room <= 0 THEN 0
                ELSE IF Len(asc) < room THEN Len(asc) ELSE room
       IN /\ Len(path') = Len(path) + k
          /\ \A i \in 1..Len(path) : path'[i] = path[i]
          /\ \A i \in 1..k : path'[Len(path) + i] = asc[i]]_vars

\* two ascendancy ids and room for one: the first of them ends the path
C26_Witness ==
  /\ pc = "done"
  /\ Len(call.ascendancy_nodes) = 2
  /\ Len(path) = call.max_points
  /\ Len(path) = Cardinality(selected) + 1
  /\ path[Len(path)] = call.ascendancy_nodes[1]

\* C27: the three copies of the classification (compute_node_type of
\* load_tree401, the tagging of analyze_tree401, the enrichment of
\* parse_poe2_tree) give the same kind for the same skill reference and
\* catalog flags.
C27_CopiesAgree ==
  LET results == {kind_call.node_type, kind_call.tagged, kind_call.enriched} \ {"none"}
  IN Cardinality(results) <= 1

\* C28: the sequence optimize_path returns holds no node id twice.
C28_NoDuplicate ==
  pc = "done" => \A i, j \in DOMAIN path : i # j => path[i] # path[j]

\* C29: whenever optimize_path is at the head of its loop, the frontier is
\* disjoint from selected, every frontier node is a neighbour of a selected
\* node, path lists exactly the nodes of selected (each once), and the start
\* node is the first element of path.
C29_FrontierInvariant ==
  pc = "loop" =>
    /\ frontier \cap selected = {}
    /\ \A f \in frontier : \E chosen \in selected : f \in Neighbours(call.edges, chosen)
    /\ {path[i] : i \in DOMAIN path} = selected
    /\ Len(path) = Cardinality(selected)
    /\ path # <<>> /\ path[1] = call.start_node

\* an iteration has selected a node that is its own neighbour and a neighbour
\* of the start node, and the frontier still holds a node
C29_Witness ==
  /\ pc = "loop" /\ Len(path) = 2 /\ frontier # {}
  /\ path[2] \in Neighbours(call.edges, path[2])
  /\ call.start_node \in Neighbours(call.edges, call.start_node)

\* C30: a build with include_ascendancy reads the ascendancy nodes stored
\* under the ascendancy version that the run which made the latest tree
\* version created.  Stated for the requests that follow a committed tree_etl
\* load: that run made the latest tree version, and the ascendancy version it
\* created is the newest row of ascendancy_versions.
C30_AscendancyOfSameRun ==
  (/\ build_call.status \in {"serving", "200"}
   /\ build_call.request.include_ascendancy
   /\ run.script = "tree_etl" /\ run.outcome = "committed"
   /\ build_call.version_id = run.version_id
   /\ ascendancy_versions # {})
  => LET asc_vid == SetMax(ascendancy_versions)
         stored == {k[2] : k \in {r \in DOMAIN ascendancy_nodes :
                                    /\ r[1] = build_call.request.character_class
                                    /\ r[3] = asc_vid}}
     IN {build_call.ascendancy_nodes[i] : i \in DOMAIN build_call.ascendancy_nodes} = stored
====
